---- MODULE Spec2Model ----
(***************************************************************************)
(* Product reservations of the bike-store marketplace backend              *)
(* (src/main.py, src/models.py): cart, checkout, pick-up and expiry sweep. *)
(*                                                                         *)
(* Time is counted in days (datetime.utcnow() read by a handler is the     *)
(* variable agora).  Tables are sequences in primary-key order, which is   *)
(* the order the un-ORDERed queries of the handlers return rows in; the    *)
(* rows of table carrinho are kept per client (every query of the table    *)
(* filters on cliente_id).                                                 *)
(*                                                                         *)
(* Spec runs the requests one at a time, each handler to completion.       *)
(* SpecAdicoes and SpecPassos let requests overlap: a handler is cut       *)
(* between its queries and its write (cart additions) or at its            *)
(* db.commit() calls (checkout), and what it has committed is visible to   *)
(* the others.                                                             *)
(* SpecCheckouts and SpecVarredura do so for two checkouts and for a        *)
(* pick-up against a sweep; SpecCarrinho and SpecRemocao add the removal   *)
(* of a cart row and of a product.  SpecServicos, SpecFusos and            *)
(* SpecAgendar are the service side: slots and appointments.               *)
(***************************************************************************)
EXTENDS Integers, Sequences, FiniteSets, TLC

(* ------------------------------ bounds -------------------------------- *)
MaxTempo == 6
MaxReservas == 2
MaxCarrinhoId == 2
MaxPedidos == 2
MaxQtd == 2
MaxHorarios == 2
MaxAgendamentos == 2
MaxLista == 2

(* ------------------------- program constants -------------------------- *)
DOIS_DIAS == 2
QUATRO_DIAS == 4

(* ------------------------------ catalog ------------------------------- *)
Clientes == {1, 2}
Lojas == {1, 2}
Produtos == {1, 2, 3}
\* Produto.loja_id and Produto.preco: no handler changes them.
LojaDoProduto == <<1, 1, 2>>
PrecoDoProduto == <<10, 20, 30>>
\* Produto.quantidade_estoque as registered by cadastrar_produto_com_imagem.
EstoqueInicial == <<1, 1, 1>>
\* "quantidade" of a cart request and of a cart row: any integer is taken,
\* int(quantidade); the model tries a negative one and the positive ones up
\* to MaxQtd.
Quantidades == {0 - 1} \cup (1 .. MaxQtd)

VARIABLES
    agora,                \* the clock read by datetime.utcnow(), in days
    quantidade_estoque,   \* Produto.quantidade_estoque, by product id
    carrinho,             \* table carrinho: each client's rows, in id order
    carrinho_seq,         \* table carrinho: the last primary key handed out
    reservas,             \* table reservas_produtos with its itens_reserva
    resp,                 \* response of the last request handled
    adicionando,          \* adicionar_item_carrinho requests between their
                          \* queries and their INSERT
    finalizando,          \* finalizar_carrinho requests in progress, by client
    horarios,             \* table servicos_horarios, in id order
    agendamentos,         \* table reservas_servicos, in id order
    relogio,              \* the UTC clock of the service requests, in half seconds
    fuso,                 \* local time of the server minus UTC, in half seconds
    agendando,            \* agendar_servico requests between their queries
                          \* and their commit
    abertos               \* pick-up and cancelar_expiradas requests between a
                          \* query and the commit of what they do with it

emcurso == <<adicionando, finalizando, abertos>>
\* The service side: slots, appointments and their clock.
agenda == <<horarios, agendamentos, relogio, fuso, agendando>>
vars == <<agora, quantidade_estoque, carrinho, carrinho_seq, reservas, resp,
          adicionando, finalizando, horarios, agendamentos, relogio, fuso,
          agendando, abertos>>

(* ----------------------------- responses ------------------------------ *)
\* The handler that answered, its HTTP status and the kind of failure.
Resposta(op, code, erro) == [op |-> op, code |-> code, erro |-> erro]

SemResposta == Resposta("nenhuma", 0, "")

(* ------------------------------- cart --------------------------------- *)
\* The table produtos has a row of id p: quantidade_estoque is defined on
\* the ids of the rows there are.
Existe(est, p) == p \in DOMAIN est

\* item_existente of adicionar_item_carrinho: the index in the client's rows
\* of the first one with product p, 0 when there is none.
PosicaoItem(itens, p) ==
    LET S == {i \in 1..Len(itens) : itens[i].produto_id = p}
    IN IF S = {} THEN 0 ELSE CHOOSE i \in S : \A j \in S : i <= j

\* As OutraLoja, but no cart is refused a product.
SemVerificarLoja(itens_existentes, p) == FALSE

\* The store check of adicionar_item_carrinho: only the first row is looked at.
OutraLoja(itens_existentes, p) ==
    /\ itens_existentes # <<>>
    /\ LojaDoProduto[itens_existentes[1].produto_id] # LojaDoProduto[p]

(* ------------------------------ checkout ------------------------------ *)
\* As ValidarCarrinho, but the stock of the first line only is checked.
RECURSIVE ValidarSoPrimeiraLinha(_, _, _, _)
ValidarSoPrimeiraLinha(itens, i, loja_id, est) ==
    IF i > Len(itens) THEN "ok"
    ELSE LET produto == itens[i].produto_id
         IN IF loja_id # 0 /\ LojaDoProduto[produto] # loja_id
               THEN "MixedStoreCart"
            ELSE IF i = 1 /\ est[produto] < itens[i].quantidade
               THEN "InsufficientStock"
            ELSE ValidarSoPrimeiraLinha(itens, i + 1, LojaDoProduto[produto], est)

\* As ValidarCarrinho, but a line's stock is checked before its store.
RECURSIVE ValidarEstoqueAntes(_, _, _, _)
ValidarEstoqueAntes(itens, i, loja_id, est) ==
    IF i > Len(itens) THEN "ok"
    ELSE LET produto == itens[i].produto_id
         IN IF est[produto] < itens[i].quantidade
               THEN "InsufficientStock"
            ELSE IF loja_id # 0 /\ LojaDoProduto[produto] # loja_id
               THEN "MixedStoreCart"
            ELSE ValidarEstoqueAntes(itens, i + 1, LojaDoProduto[produto], est)

\* The validation loop of finalizar_carrinho, from line i on; loja_id = 0
\* stands for None.
RECURSIVE ValidarCarrinho(_, _, _, _)
ValidarCarrinho(itens, i, loja_id, est) ==
    IF i > Len(itens) THEN "ok"
    ELSE LET produto == itens[i].produto_id
         IN IF ~Existe(est, produto)
               THEN "NotFound"
            ELSE IF loja_id # 0 /\ LojaDoProduto[produto] # loja_id
               THEN "MixedStoreCart"
            ELSE IF est[produto] < itens[i].quantidade
               THEN "InsufficientStock"
            ELSE ValidarCarrinho(itens, i + 1, LojaDoProduto[produto], est)

\* As AbaterEstoque, but the loop stops after the first line.
AbaterSoPrimeiraLinha(itens, i, est) ==
    IF i > Len(itens) \/ i > 1 THEN est
    ELSE [est EXCEPT ![itens[i].produto_id] = @ - itens[i].quantidade]

\* "Abater estoque": one decrement per line, in order.
RECURSIVE AbaterEstoque(_, _, _)
AbaterEstoque(itens, i, est) ==
    IF i > Len(itens) THEN est
    ELSE AbaterEstoque(itens, i + 1,
            [est EXCEPT ![itens[i].produto_id] = @ - itens[i].quantidade])

\* "Criar itens de reserva": one ItemReserva per cart line.
ItensReserva(itens) ==
    [k \in 1..Len(itens) |->
        [produto_id |-> itens[k].produto_id,
         quantidade |-> itens[k].quantidade,
         preco_unitario |-> PrecoDoProduto[itens[k].produto_id]]]

\* As NovaReserva, but the reservation expires six days after its creation.
NovaReservaPrazoLongo(c, loja, t) ==
    [cliente_id |-> c, loja_id |-> loja, data_reserva |-> t,
     status |-> "RESERVADO", data_limite |-> t + QUATRO_DIAS + DOIS_DIAS,
     itens |-> <<>>]

\* The ReservaProduto row created by finalizar_carrinho; its ItemReserva
\* rows are attached by the commit that follows.
NovaReserva(c, loja, t) ==
    [cliente_id |-> c, loja_id |-> loja, data_reserva |-> t,
     status |-> "RESERVADO", data_limite |-> t + DOIS_DIAS,
     itens |-> <<>>]

(* --------------------------- expiry sweep ----------------------------- *)
\* As Expiradas2Dias, but a reservation is taken on its data_limite already.
Expiradas2DiasInclusive(res, loja, t) ==
    {i \in 1..Len(res) : /\ res[i].loja_id = loja
                         /\ res[i].status = "RESERVADO"
                         /\ res[i].data_limite <= t}

\* First query of cancelar_expiradas.
Expiradas2Dias(res, loja, t) ==
    {i \in 1..Len(res) : /\ res[i].loja_id = loja
                         /\ res[i].status = "RESERVADO"
                         /\ res[i].data_limite < t}

\* As Expiradas4Dias, but without the filter on status.
Expiradas4DiasSemStatus(res, loja, t) ==
    {i \in 1..Len(res) : /\ res[i].loja_id = loja
                         /\ res[i].data_reserva + QUATRO_DIAS < t}

\* Second query of cancelar_expiradas.
Expiradas4Dias(res, loja, t) ==
    {i \in 1..Len(res) : /\ res[i].loja_id = loja
                         /\ res[i].status = "RESERVADO"
                         /\ res[i].data_reserva + QUATRO_DIAS < t}

\* Sum of the quantities of product p in the items its[k..].
RECURSIVE QtdNosItens(_, _, _)
QtdNosItens(its, k, p) ==
    IF k > Len(its) THEN 0
    ELSE (IF its[k].produto_id = p THEN its[k].quantidade ELSE 0)
         + QtdNosItens(its, k + 1, p)

\* Sum over the reservations of S of the quantities of product p.
RECURSIVE QtdNasReservas(_, _, _)
QtdNasReservas(res, S, p) ==
    IF S = {} THEN 0
    ELSE LET i == CHOOSE x \in S : TRUE
         IN QtdNosItens(res[i].itens, 1, p) + QtdNasReservas(res, S \ {i}, p)

\* As Cancelar, but the status is left as it was.
CancelarSemMarcar(res, S) == res

\* The loop body of cancelar_expiradas applied to every reservation of S:
\* status CANCELADO, and each item's quantity added back to its product.
Cancelar(res, S) ==
    [i \in 1..Len(res) |->
        IF i \in S THEN [res[i] EXCEPT !.status = "CANCELADO"] ELSE res[i]]

Devolver(est, res, S) ==
    [p \in DOMAIN est |-> est[p] + QtdNasReservas(res, S, p)]

\* Some item of the reservation is of a product whose row is gone: the
\* query of the inner loop of cancelar_expiradas returns None for it.
Faltando(est, reserva) ==
    \E k \in 1..Len(reserva.itens) : ~Existe(est, reserva.itens[k].produto_id)

\* The first reservation of S, in the order of the loop, at which
\* produto.quantidade_estoque raises; 0 when there is none.
PrimeiraFalha(est, res, S) ==
    LET F == {i \in S : Faltando(est, res[i])}
    IN IF F = {} THEN 0 ELSE CHOOSE i \in F : \A j \in F : i <= j

\* The reservations of S the loop commits before it raises at f.
Antes(S, f) == IF f = 0 THEN S ELSE {i \in S : i < f}

\* cancelar_expiradas as a function of the database: the 2-day scan and its
\* loop, then the 4-day scan (run on what the first loop committed) and its
\* loop.
SweepReservas(res, loja, t) ==
    LET r1 == Cancelar(res, Expiradas2Dias(res, loja, t))
    IN Cancelar(r1, Expiradas4Dias(r1, loja, t))

SweepEstoque(est, res, loja, t) ==
    LET S1 == Expiradas2Dias(res, loja, t)
        r1 == Cancelar(res, S1)
        e1 == Devolver(est, res, S1)
    IN Devolver(e1, r1, Expiradas4Dias(r1, loja, t))

(* ------------------------------ services ----------------------------- *)
\* The timestamps of slots and appointments and the clock of the service
\* requests are counted in half seconds from 00:00:00 of day 0: a DateTime
\* holds fractions of a second, and a slot may be created at one.
MEIO_SEGUNDO == 1
UMA_HORA == 7200
DIA == 172800
\* 23:59:59 of a day, counted from its 00:00:00.
ULTIMO_SEGUNDO == 172798

Servicos == {1, 2}
\* Servico.loja_id: no handler changes it.
LojaDoServico == <<1, 2>>
\* The timestamps stores ask slots for: 10:00:00 and 23:59:59.5 of day 0,
\* 10:00:00 of day 1.
Marcas == {10 * UMA_HORA, DIA - MEIO_SEGUNDO, DIA + 10 * UMA_HORA}
\* The instants at which requests arrive (UTC): 09:00:00 of day 0 and half
\* a second later.
Instantes == {9 * UMA_HORA, 9 * UMA_HORA + MEIO_SEGUNDO}
\* The offset of the server's local time: UTC and UTC-3.
Fusos == {0, 0 - 3 * UMA_HORA}
\* The statuses an appointment is given.
StatusServico == {"PENDENTE", "ACEITO", "REJEITADA", "CANCELADO"}

\* The session of SessionLocal() flushes what was added to it before it
\* runs a query.
Autoflush == TRUE

\* datetime.now(): the local time of the server.
AgoraLocal == relogio + fuso

\* horario.date(), as the number of the day.
Data(h) == h \div DIA

\* "existe" of criar_horarios_servico: some slot of the service at h.
ExisteHorario(hs, s, h) ==
    \E i \in 1..Len(hs) : hs[i].servico_id = s /\ hs[i].horario = h

\* As InserirHorarios, but a slot is added for every timestamp of the list.
RECURSIVE InserirSemVerificar(_, _, _, _, _)
InserirSemVerificar(gravados, novos, s, lista, k) ==
    IF k > Len(lista) THEN gravados \o novos
    ELSE InserirSemVerificar(gravados,
            Append(novos, [servico_id |-> s, horario |-> lista[k],
                           is_disponivel |-> TRUE]),
            s, lista, k + 1)

\* The loop of criar_horarios_servico from the k-th timestamp of the list
\* on, and its commit: gravados are the rows of the table, novos the rows
\* added to the session so far.
RECURSIVE InserirHorarios(_, _, _, _, _)
InserirHorarios(gravados, novos, s, lista, k) ==
    IF k > Len(lista) THEN gravados \o novos
    ELSE IF ExisteHorario(IF Autoflush THEN gravados \o novos ELSE gravados,
                          s, lista[k])
       THEN InserirHorarios(gravados, novos, s, lista, k + 1)
    ELSE InserirHorarios(gravados,
            Append(novos, [servico_id |-> s, horario |-> lista[k],
                           is_disponivel |-> TRUE]),
            s, lista, k + 1)

\* As HorarioDisponivel, but the slot's service is not looked at.
HorarioDeQualquerServico(hs, s, h) ==
    /\ h \in 1..Len(hs)
    /\ hs[h].is_disponivel

\* First query of agendar_servico: the slot of id h, of service s, available.
HorarioDisponivel(hs, s, h) ==
    /\ h \in 1..Len(hs)
    /\ hs[h].servico_id = s
    /\ hs[h].is_disponivel

\* reservas_mesmo_dia of agendar_servico: the client's appointments from
\* 00:00:00 to 23:59:59 of the date of h.
MesmoDia(ag, c, h) ==
    {i \in 1..Len(ag) :
        /\ ag[i].cliente_id = c
        /\ ag[i].data_horario >= Data(h) * DIA
        /\ ag[i].data_horario <= Data(h) * DIA + ULTIMO_SEGUNDO}

\* As NovoAgendamento, but data_horario is left to the column's default,
\* the time of the request.
NovoAgendamentoAgora(c, s, h) ==
    [cliente_id |-> c, loja_id |-> LojaDoServico[s], servico_id |-> s,
     data_horario |-> relogio, status |-> "PENDENTE"]

\* nova_reserva of agendar_servico.
NovoAgendamento(c, s, h) ==
    [cliente_id |-> c, loja_id |-> LojaDoServico[s], servico_id |-> s,
     data_horario |-> h, status |-> "PENDENTE"]

\* The slot cancelar_reserva frees: the first one of the appointment's
\* service at the appointment's timestamp, 0 when there is none.
HorarioDaReserva(hs, reserva) ==
    LET S == {i \in 1..Len(hs) : /\ hs[i].servico_id = reserva.servico_id
                                  /\ hs[i].horario = reserva.data_horario}
    IN IF S = {} THEN 0 ELSE CHOOSE i \in S : \A j \in S : i <= j

\* As MuitoTarde, but exactly one hour ahead is too late as well.
MuitoTardeInclusive(reserva, t) == reserva.data_horario - t <= UMA_HORA

\* The 1-hour test of cancelar_reserva.
MuitoTarde(reserva, t) == reserva.data_horario - t < UMA_HORA

(* ------------------------------ actions ------------------------------- *)
\* No finalizar_carrinho request of the client is in progress.
Ocioso == [pc |-> "ocioso", i |-> 0, n |-> 0, linha |-> <<>>, lido |-> 0,
           loja_id |-> 0, reserva |-> 0]

\* The product side after construction.
InitLoja ==
    /\ agora = 0
    /\ quantidade_estoque = EstoqueInicial
    /\ carrinho = [c \in Clientes |-> <<>>]
    /\ carrinho_seq = 0
    /\ adicionando = {}
    /\ finalizando = [c \in Clientes |-> Ocioso]
    /\ abertos = {}
    /\ reservas = <<>>
    /\ resp = SemResposta

\* The service side after construction: no slot, no appointment.
InitAgenda ==
    /\ horarios = <<>>
    /\ agendamentos = <<>>
    /\ relogio = 9 * UMA_HORA
    /\ agendando = {}

\* The product handlers never read the local time: the server is on UTC.
Init == InitLoja /\ InitAgenda /\ fuso = 0

\* The server on any of the offsets.
InitFusos == InitLoja /\ InitAgenda /\ fuso \in Fusos

\* POST /cliente/<c>/carrinho with {produto_id: p, quantidade: q}
adicionar_item_carrinho(c, p, q) ==
    LET pos == PosicaoItem(carrinho[c], p)
    IN /\ IF ~Existe(quantidade_estoque, p)
             THEN /\ resp' = Resposta("adicionar_item_carrinho", 404, "NotFound")
                  /\ UNCHANGED <<carrinho, carrinho_seq>>
          ELSE IF /\ carrinho[c] # <<>>
                  /\ ~Existe(quantidade_estoque, carrinho[c][1].produto_id)
             THEN /\ resp' = Resposta("adicionar_item_carrinho", 500, "ServerError")
                  /\ UNCHANGED <<carrinho, carrinho_seq>>
          ELSE IF OutraLoja(carrinho[c], p)
             THEN /\ resp' = Resposta("adicionar_item_carrinho", 400, "OutraLoja")
                  /\ UNCHANGED <<carrinho, carrinho_seq>>
          ELSE IF pos # 0
             THEN /\ carrinho[c][pos].quantidade + q \in Quantidades
                  /\ carrinho' = [carrinho EXCEPT ![c][pos].quantidade = @ + q]
                  /\ resp' = Resposta("adicionar_item_carrinho", 200, "")
                  /\ UNCHANGED carrinho_seq
          ELSE /\ carrinho_seq < MaxCarrinhoId
               /\ carrinho_seq' = carrinho_seq + 1
               /\ carrinho' = [carrinho EXCEPT ![c] =
                     Append(@, [produto_id |-> p, quantidade |-> q])]
               /\ resp' = Resposta("adicionar_item_carrinho", 200, "")
       /\ UNCHANGED <<agora, quantidade_estoque, reservas, emcurso, agenda>>

\* POST /cliente/<c>/finalizar_carrinho
finalizar_carrinho(c) ==
    LET itens_carrinho == carrinho[c]
        erro == ValidarCarrinho(itens_carrinho, 1, 0, quantidade_estoque)
    IN /\ IF itens_carrinho = <<>>
             THEN /\ resp' = Resposta("finalizar_carrinho", 400, "EmptyCart")
                  /\ UNCHANGED <<quantidade_estoque, carrinho, reservas>>
          ELSE IF erro # "ok"
             THEN /\ resp' = Resposta("finalizar_carrinho",
                                       IF erro = "NotFound" THEN 404 ELSE 400, erro)
                  /\ UNCHANGED <<quantidade_estoque, carrinho, reservas>>
          ELSE /\ Len(reservas) < MaxReservas
               /\ quantidade_estoque' =
                     AbaterEstoque(itens_carrinho, 1, quantidade_estoque)
               /\ reservas' = Append(reservas,
                     [NovaReserva(c, LojaDoProduto[itens_carrinho[1].produto_id],
                                  agora)
                        EXCEPT !.itens = ItensReserva(itens_carrinho)])
               /\ carrinho' = [carrinho EXCEPT ![c] = <<>>]
               /\ resp' = Resposta("finalizar_carrinho", 200, "")
       /\ UNCHANGED <<agora, carrinho_seq, emcurso, agenda>>

\* As StatusInvalido, but only a reservation already picked up is refused.
StatusInvalidoSoRetirado(reserva) == reserva.status = "RETIRADO"

\* The status test of marcar_retirada and of cliente_marcar_retirada.
StatusInvalido(reserva) == reserva.status # "RESERVADO"

\* PUT /loja/<l>/reserva/<r>/marcar_retirada
marcar_retirada(l, r) ==
    /\ IF r \notin 1..Len(reservas) \/ reservas[r].loja_id # l
          THEN /\ resp' = Resposta("marcar_retirada", 404, "NotFound")
               /\ UNCHANGED reservas
       ELSE IF StatusInvalido(reservas[r])
          THEN /\ resp' = Resposta("marcar_retirada", 400, "InvalidStatus")
               /\ UNCHANGED reservas
       ELSE /\ reservas' = [reservas EXCEPT ![r].status = "RETIRADO"]
            /\ resp' = Resposta("marcar_retirada", 200, "")
    /\ UNCHANGED <<agora, quantidade_estoque, carrinho, carrinho_seq, emcurso, agenda>>

\* As ForaDoPrazo, but the fourth day itself is out of the window.
ForaDoPrazoInclusive(reserva, t) == t >= reserva.data_reserva + QUATRO_DIAS

\* The 4-day test of cliente_marcar_retirada.
ForaDoPrazo(reserva, t) == t > reserva.data_reserva + QUATRO_DIAS

\* PUT /cliente/<c>/reserva/<r>/marcar_retirada
cliente_marcar_retirada(c, r) ==
    /\ IF r \notin 1..Len(reservas) \/ reservas[r].cliente_id # c
          THEN /\ resp' = Resposta("cliente_marcar_retirada", 404, "NotFound")
               /\ UNCHANGED reservas
       ELSE IF StatusInvalido(reservas[r])
          THEN /\ resp' = Resposta("cliente_marcar_retirada", 400, "InvalidStatus")
               /\ UNCHANGED reservas
       ELSE IF ForaDoPrazo(reservas[r], agora)
          THEN /\ resp' = Resposta("cliente_marcar_retirada", 400, "WindowExpired")
               /\ UNCHANGED reservas
       ELSE /\ reservas' = [reservas EXCEPT ![r].status = "RETIRADO"]
            /\ resp' = Resposta("cliente_marcar_retirada", 200, "")
    /\ UNCHANGED <<agora, quantidade_estoque, carrinho, carrinho_seq, emcurso, agenda>>

\* PUT /loja/<l>/reservas/cancelar_expiradas
cancelar_expiradas(l) ==
    LET S1 == Expiradas2Dias(reservas, l, agora)
        f1 == PrimeiraFalha(quantidade_estoque, reservas, S1)
        r1 == Cancelar(reservas, Antes(S1, f1))
        e1 == Devolver(quantidade_estoque, reservas, Antes(S1, f1))
        S2 == Expiradas4Dias(r1, l, agora)
        f2 == PrimeiraFalha(e1, r1, S2)
    IN /\ IF f1 # 0
             THEN /\ reservas' = r1
                  /\ quantidade_estoque' = e1
                  /\ resp' = Resposta("cancelar_expiradas", 500, "ServerError")
          ELSE IF f2 # 0
             THEN /\ reservas' = Cancelar(r1, Antes(S2, f2))
                  /\ quantidade_estoque' = Devolver(e1, r1, Antes(S2, f2))
                  /\ resp' = Resposta("cancelar_expiradas", 500, "ServerError")
          ELSE /\ reservas' = SweepReservas(reservas, l, agora)
               /\ quantidade_estoque' =
                     SweepEstoque(quantidade_estoque, reservas, l, agora)
               /\ resp' = Resposta("cancelar_expiradas", 200, "")
       /\ UNCHANGED <<agora, carrinho, carrinho_seq, emcurso, agenda>>

\* Time passes between requests.  The handlers compare the clock with the
\* dates of the reservations still RESERVADO only, with thresholds at 2 and
\* 4 days after data_reserva: the clock runs while such a reservation
\* exists, and is sampled every two days, which puts a sample before,
\* exactly at and after each threshold.
Tick ==
    /\ agora < MaxTempo
    /\ \E i \in 1..Len(reservas) : reservas[i].status = "RESERVADO"
    /\ agora' = agora + DOIS_DIAS
    /\ resp' = SemResposta
    /\ UNCHANGED <<quantidade_estoque, carrinho, carrinho_seq, reservas, emcurso, agenda>>

Next ==
    \/ \E c \in Clientes, p \in Produtos, q \in Quantidades :
          adicionar_item_carrinho(c, p, q)
    \/ \E c \in Clientes : finalizar_carrinho(c)
    \/ \E l \in Lojas, r \in 1..MaxReservas : marcar_retirada(l, r)
    \/ \E c \in Clientes, r \in 1..MaxReservas : cliente_marcar_retirada(c, r)
    \/ \E l \in Lojas : cancelar_expiradas(l)
    \/ Tick

\* Requests handled one at a time, each handler run to completion.
Spec == Init /\ [][Next]_vars

(* --------------------------- cart removals ---------------------------- *)
\* The rows of itens but the one at position pos.
SemLinha(itens, pos) ==
    SubSeq(itens, 1, pos - 1) \o SubSeq(itens, pos + 1, Len(itens))

\* DELETE /cliente/<c>/carrinho?produto_id=p
remover_item_carrinho(c, p) ==
    LET pos == PosicaoItem(carrinho[c], p)
    IN /\ IF pos = 0
             THEN /\ resp' = Resposta("remover_item_carrinho", 404, "NotFound")
                  /\ UNCHANGED carrinho
          ELSE /\ carrinho' = [carrinho EXCEPT ![c] = SemLinha(@, pos)]
               /\ resp' = Resposta("remover_item_carrinho", 200, "")
       /\ UNCHANGED <<agora, quantidade_estoque, carrinho_seq, reservas, emcurso,
                      agenda>>

NextCarrinho ==
    \/ \E c \in Clientes, p \in Produtos, q \in Quantidades :
          adicionar_item_carrinho(c, p, q)
    \/ \E c \in Clientes, p \in Produtos : remover_item_carrinho(c, p)
    \/ \E c \in Clientes : finalizar_carrinho(c)

\* Cart additions, cart removals and checkouts, handled one at a time.
SpecCarrinho == Init /\ [][NextCarrinho]_vars

(* -------------------------- product removals -------------------------- *)
\* Whether the database enforces the foreign keys of the tables: both kinds
\* of database are tried.
ChavesEstrangeiras == BOOLEAN

\* A cart row or an item of a reservation references product p.
Referenciado(p) ==
    \/ \E c \in Clientes : \E k \in 1..Len(carrinho[c]) :
          carrinho[c][k].produto_id = p
    \/ \E r \in 1..Len(reservas) : \E k \in 1..Len(reservas[r].itens) :
          reservas[r].itens[k].produto_id = p

\* DELETE /loja/<l>/produto/<p>, on a database that enforces the foreign
\* keys (fk) or does not: the DELETE of a referenced row is then refused at
\* the commit, which raises.
remover_produto(l, p, fk) ==
    /\ IF ~Existe(quantidade_estoque, p) \/ LojaDoProduto[p] # l
          THEN /\ resp' = Resposta("remover_produto", 404, "NotFound")
               /\ UNCHANGED quantidade_estoque
       ELSE IF fk /\ Referenciado(p)
          THEN /\ resp' = Resposta("remover_produto", 500, "ServerError")
               /\ UNCHANGED quantidade_estoque
       ELSE /\ quantidade_estoque' =
                  [x \in DOMAIN quantidade_estoque \ {p} |-> quantidade_estoque[x]]
            /\ resp' = Resposta("remover_produto", 200, "")
    /\ UNCHANGED <<agora, carrinho, carrinho_seq, reservas, emcurso, agenda>>

NextRemocao ==
    \/ \E c \in Clientes, p \in Produtos, q \in Quantidades :
          adicionar_item_carrinho(c, p, q)
    \/ \E c \in Clientes : finalizar_carrinho(c)
    \/ \E l \in Lojas, p \in Produtos, fk \in ChavesEstrangeiras :
          remover_produto(l, p, fk)
    \/ \E l \in Lojas, r \in 1..MaxReservas : marcar_retirada(l, r)
    \/ \E l \in Lojas : cancelar_expiradas(l)
    \/ Tick

\* Requests handled one at a time, product removals among them; each store
\* keeps sending its sweep.
SpecRemocao ==
    /\ Init
    /\ [][NextRemocao]_vars
    /\ \A l \in Lojas : WF_vars(cancelar_expiradas(l))

(* ----------------------- overlapping requests -------------------------- *)
\* adicionar_item_carrinho up to its last query, on the path that finds no
\* row of the product in the cart: the request is left with its INSERT to do.
adicionar_ler(c, p, q) ==
    /\ Cardinality(adicionando) < MaxPedidos
    /\ ~OutraLoja(carrinho[c], p)
    /\ PosicaoItem(carrinho[c], p) = 0
    /\ adicionando' = adicionando \cup
          {[cliente_id |-> c, produto_id |-> p, quantidade |-> q]}
    /\ resp' = SemResposta
    /\ UNCHANGED <<agora, quantidade_estoque, carrinho, carrinho_seq, reservas,
                   finalizando, abertos, agenda>>

\* db.add(novo_item); db.commit() of adicionar_item_carrinho.
adicionar_gravar(req) ==
    /\ req \in adicionando
    /\ carrinho_seq < MaxCarrinhoId
    /\ carrinho_seq' = carrinho_seq + 1
    /\ carrinho' = [carrinho EXCEPT ![req.cliente_id] =
          Append(@, [produto_id |-> req.produto_id, quantidade |-> req.quantidade])]
    /\ adicionando' = adicionando \ {req}
    /\ resp' = Resposta("adicionar_item_carrinho", 200, "")
    /\ UNCHANGED <<agora, quantidade_estoque, reservas, finalizando, abertos, agenda>>

\* finalizar_carrinho up to the end of its validation loop.  The request
\* keeps the rows it loaded (the first n rows of the client's cart) and
\* what it read of the first one and of its product.
finalizar_validar(c) ==
    LET itens_carrinho == carrinho[c]
        erro == ValidarCarrinho(itens_carrinho, 1, 0, quantidade_estoque)
        abertas == {d \in Clientes : finalizando[d].pc \in {"abater", "reservar"}}
    IN /\ finalizando[c] = Ocioso
       /\ IF itens_carrinho = <<>>
             THEN /\ resp' = Resposta("finalizar_carrinho", 400, "EmptyCart")
                  /\ UNCHANGED finalizando
          ELSE IF erro # "ok"
             THEN /\ resp' = Resposta("finalizar_carrinho",
                                       IF erro = "NotFound" THEN 404 ELSE 400, erro)
                  /\ UNCHANGED finalizando
          ELSE /\ Len(reservas) + Cardinality(abertas) < MaxReservas
               /\ finalizando' = [finalizando EXCEPT ![c] =
                     [pc |-> "abater", i |-> 1, n |-> Len(itens_carrinho),
                      linha |-> itens_carrinho[1],
                      lido |-> quantidade_estoque[itens_carrinho[1].produto_id],
                      loja_id |-> LojaDoProduto[itens_carrinho[1].produto_id],
                      reserva |-> 0]]
               /\ resp' = SemResposta
       /\ UNCHANGED <<agora, quantidade_estoque, carrinho, carrinho_seq, reservas,
                      adicionando, abertos, agenda>>

\* One iteration of "Abater estoque", with its commit.  After a commit the
\* session reloads what it reads; before the first one the product may
\* still be the object the validation loop loaded, or be loaded again.
finalizar_abater(c) ==
    LET f == finalizando[c]
        linha == IF f.i = 1 THEN f.linha ELSE carrinho[c][f.i]
        p == linha.produto_id
    IN /\ f.pc = "abater"
       /\ \E base \in {quantidade_estoque[p]} \cup (IF f.i = 1 THEN {f.lido} ELSE {}) :
             quantidade_estoque' =
                [quantidade_estoque EXCEPT ![p] = base - linha.quantidade]
       /\ finalizando' = [finalizando EXCEPT
             ![c].i = f.i + 1,
             ![c].pc = IF f.i = f.n THEN "reservar" ELSE "abater"]
       /\ resp' = SemResposta
       /\ UNCHANGED <<agora, carrinho, carrinho_seq, reservas, adicionando, abertos, agenda>>

\* "Criar reserva", with its commit.
finalizar_reservar(c) ==
    LET f == finalizando[c]
    IN /\ f.pc = "reservar"
       /\ reservas' = Append(reservas, NovaReserva(c, f.loja_id, agora))
       /\ finalizando' = [finalizando EXCEPT
             ![c].reserva = Len(reservas) + 1, ![c].pc = "itens"]
       /\ resp' = SemResposta
       /\ UNCHANGED <<agora, quantidade_estoque, carrinho, carrinho_seq,
                      adicionando, abertos, agenda>>

\* "Criar itens de reserva", with its commit.
finalizar_itens(c) ==
    LET f == finalizando[c]
    IN /\ f.pc = "itens"
       /\ reservas' = [reservas EXCEPT ![f.reserva].itens =
             ItensReserva(SubSeq(carrinho[c], 1, f.n))]
       /\ finalizando' = [finalizando EXCEPT ![c].pc = "limpar"]
       /\ resp' = SemResposta
       /\ UNCHANGED <<agora, quantidade_estoque, carrinho, carrinho_seq,
                      adicionando, abertos, agenda>>

\* "Limpar carrinho", with its commit, and the response.
finalizar_limpar(c) ==
    LET f == finalizando[c]
    IN /\ f.pc = "limpar"
       /\ carrinho' = [carrinho EXCEPT ![c] = SubSeq(@, f.n + 1, Len(@))]
       /\ finalizando' = [finalizando EXCEPT ![c] = Ocioso]
       /\ resp' = Resposta("finalizar_carrinho", 200, "")
       /\ UNCHANGED <<agora, quantidade_estoque, carrinho_seq, reservas,
                      adicionando, abertos, agenda>>

NextAdicoes ==
    \/ \E c \in Clientes, p \in Produtos, q \in Quantidades :
          adicionar_item_carrinho(c, p, q)
    \/ \E c \in Clientes, p \in Produtos, q \in Quantidades :
          adicionar_ler(c, p, q)
    \/ \E req \in adicionando : adicionar_gravar(req)
    \/ \E c \in Clientes : finalizar_carrinho(c)

\* Cart additions that overlap, each cut between its queries and its INSERT;
\* checkouts run to completion.
SpecAdicoes == Init /\ [][NextAdicoes]_vars

NextPassos ==
    \/ \E c \in Clientes, p \in Produtos, q \in Quantidades :
          adicionar_item_carrinho(c, p, q)
    \/ \E c \in Clientes : finalizar_validar(c)
    \/ \E c \in Clientes : finalizar_abater(c)
    \/ \E c \in Clientes : finalizar_reservar(c)
    \/ \E c \in Clientes : finalizar_itens(c)
    \/ \E c \in Clientes : finalizar_limpar(c)

\* Checkouts that overlap with each other and with cart additions: a step
\* of a checkout is what it does between two of its commits.
SpecPassos == Init /\ [][NextPassos]_vars

\* A cart addition handled while no checkout is in progress.
adicionar_antes(c, p, q) ==
    /\ \A d \in Clientes : finalizando[d] = Ocioso
    /\ adicionar_item_carrinho(c, p, q)

NextCheckouts ==
    \/ \E c \in Clientes, p \in Produtos, q \in Quantidades :
          adicionar_antes(c, p, q)
    \/ \E c \in Clientes : finalizar_validar(c)
    \/ \E c \in Clientes : finalizar_abater(c)
    \/ \E c \in Clientes : finalizar_reservar(c)
    \/ \E c \in Clientes : finalizar_itens(c)
    \/ \E c \in Clientes : finalizar_limpar(c)

\* Checkouts that overlap with each other only: the carts are filled
\* between them.
SpecCheckouts == Init /\ [][NextCheckouts]_vars

(* ------------------ overlapping pick-ups and sweeps -------------------- *)
\* A pick-up request that has loaded reservation r and passed its tests.
Retirada(op, r) ==
    [op |-> op, reserva |-> r, loja_id |-> 0, agora |-> 0, fase |-> 0, fila |-> {}]

\* A cancelar_expiradas request of store l that read the clock at t and is in
\* the loop over the reservations of fila, loaded by its 2-day or 4-day query.
Varredura(l, t, fase, fila) ==
    [op |-> "cancelar_expiradas", reserva |-> 0, loja_id |-> l, agora |-> t,
     fase |-> fase, fila |-> fila]

\* The requests in progress of each kind; one pick-up and one sweep overlap.
Retiradas(ab) == {x \in ab : x.op # "cancelar_expiradas"}

Varreduras(ab) == {x \in ab : x.op = "cancelar_expiradas"}

\* marcar_retirada up to its status test.
retirada_ler(l, r) ==
    /\ IF r \notin 1..Len(reservas) \/ reservas[r].loja_id # l
          THEN /\ resp' = Resposta("marcar_retirada", 404, "NotFound")
               /\ UNCHANGED abertos
       ELSE IF StatusInvalido(reservas[r])
          THEN /\ resp' = Resposta("marcar_retirada", 400, "InvalidStatus")
               /\ UNCHANGED abertos
       ELSE /\ Retiradas(abertos) = {}
            /\ abertos' = abertos \cup {Retirada("marcar_retirada", r)}
            /\ resp' = SemResposta
    /\ UNCHANGED <<agora, quantidade_estoque, carrinho, carrinho_seq, reservas,
                   adicionando, finalizando, agenda>>

\* cliente_marcar_retirada up to its 4-day test.
cliente_retirada_ler(c, r) ==
    /\ IF r \notin 1..Len(reservas) \/ reservas[r].cliente_id # c
          THEN /\ resp' = Resposta("cliente_marcar_retirada", 404, "NotFound")
               /\ UNCHANGED abertos
       ELSE IF StatusInvalido(reservas[r])
          THEN /\ resp' = Resposta("cliente_marcar_retirada", 400, "InvalidStatus")
               /\ UNCHANGED abertos
       ELSE IF ForaDoPrazo(reservas[r], agora)
          THEN /\ resp' = Resposta("cliente_marcar_retirada", 400, "WindowExpired")
               /\ UNCHANGED abertos
       ELSE /\ Retiradas(abertos) = {}
            /\ abertos' = abertos \cup {Retirada("cliente_marcar_retirada", r)}
            /\ resp' = SemResposta
    /\ UNCHANGED <<agora, quantidade_estoque, carrinho, carrinho_seq, reservas,
                   adicionando, finalizando, agenda>>

\* reserva.status = "RETIRADO"; db.commit() of either pick-up: the UPDATE of
\* the row the request loaded, whatever its status is by now.
retirada_gravar(req) ==
    /\ req \in abertos
    /\ req.op \in {"marcar_retirada", "cliente_marcar_retirada"}
    /\ reservas' = [reservas EXCEPT ![req.reserva].status = "RETIRADO"]
    /\ abertos' = abertos \ {req}
    /\ resp' = Resposta(req.op, 200, "")
    /\ UNCHANGED <<agora, quantidade_estoque, carrinho, carrinho_seq,
                   adicionando, finalizando, agenda>>

\* cancelar_expiradas up to the end of its first query.
varrer_2dias(l) ==
    /\ Varreduras(abertos) = {}
    /\ abertos' = abertos \cup
          {Varredura(l, agora, 2, Expiradas2Dias(reservas, l, agora))}
    /\ resp' = SemResposta
    /\ UNCHANGED <<agora, quantidade_estoque, carrinho, carrinho_seq, reservas,
                   adicionando, finalizando, agenda>>

\* One iteration of either loop of cancelar_expiradas, with its commit, on
\* the next reservation the query loaded: the status is written whatever it
\* is by now, the items' products are read and written back.
varrer_cancelar(req) ==
    /\ req \in abertos
    /\ req.op = "cancelar_expiradas"
    /\ req.fila # {}
    /\ LET i == CHOOSE x \in req.fila : \A y \in req.fila : x <= y
       IN /\ reservas' = Cancelar(reservas, {i})
          /\ quantidade_estoque' = Devolver(quantidade_estoque, reservas, {i})
          /\ abertos' = (abertos \ {req}) \cup
                {Varredura(req.loja_id, req.agora, req.fase, req.fila \ {i})}
    /\ resp' = SemResposta
    /\ UNCHANGED <<agora, carrinho, carrinho_seq, adicionando, finalizando, agenda>>

\* The second query of cancelar_expiradas, after the first loop.
varrer_4dias(req) ==
    /\ req \in abertos
    /\ req.op = "cancelar_expiradas"
    /\ req.fase = 2
    /\ req.fila = {}
    /\ abertos' = (abertos \ {req}) \cup
          {Varredura(req.loja_id, req.agora, 4,
                     Expiradas4Dias(reservas, req.loja_id, req.agora))}
    /\ resp' = SemResposta
    /\ UNCHANGED <<agora, quantidade_estoque, carrinho, carrinho_seq, reservas,
                   adicionando, finalizando, agenda>>

\* The response of cancelar_expiradas, after the second loop.
varrer_responder(req) ==
    /\ req \in abertos
    /\ req.op = "cancelar_expiradas"
    /\ req.fase = 4
    /\ req.fila = {}
    /\ abertos' = abertos \ {req}
    /\ resp' = Resposta("cancelar_expiradas", 200, "")
    /\ UNCHANGED <<agora, quantidade_estoque, carrinho, carrinho_seq, reservas,
                   adicionando, finalizando, agenda>>

NextVarredura ==
    \/ \E c \in Clientes, p \in Produtos, q \in Quantidades :
          adicionar_item_carrinho(c, p, q)
    \/ \E c \in Clientes : finalizar_carrinho(c)
    \/ \E l \in Lojas, r \in 1..MaxReservas : retirada_ler(l, r)
    \/ \E c \in Clientes, r \in 1..MaxReservas : cliente_retirada_ler(c, r)
    \/ \E req \in abertos : retirada_gravar(req)
    \/ \E l \in Lojas : varrer_2dias(l)
    \/ \E req \in abertos : varrer_cancelar(req)
    \/ \E req \in abertos : varrer_4dias(req)
    \/ \E req \in abertos : varrer_responder(req)
    \/ Tick

\* Pick-ups and sweeps that overlap, each cut between a query and the commit
\* of what it does with the rows loaded; cart requests run to completion.
SpecVarredura == Init /\ [][NextVarredura]_vars

(* --------------------------- service requests ------------------------- *)
\* The product side, which the service handlers leave alone.
loja == <<agora, quantidade_estoque, carrinho, carrinho_seq, reservas,
          adicionando, finalizando, abertos>>

\* The lists of timestamps of a criar_horarios_servico request.
Listas == UNION {[1..n -> Marcas] : n \in 1..MaxLista}

\* POST /loja/<l>/servico/<s>/horarios with {horarios: lista}
criar_horarios_servico(l, s, lista) ==
    /\ IF LojaDoServico[s] # l
          THEN /\ resp' = Resposta("criar_horarios_servico", 404, "NotFound")
               /\ UNCHANGED horarios
       ELSE /\ Len(InserirHorarios(horarios, <<>>, s, lista, 1)) <= MaxHorarios
            /\ horarios' = InserirHorarios(horarios, <<>>, s, lista, 1)
            /\ resp' = Resposta("criar_horarios_servico", 200, "")
    /\ UNCHANGED <<agendamentos, relogio, fuso, agendando, loja>>

\* POST /cliente/<c>/servicos/<s>/agendar with {horario_id: h}
agendar_servico(c, s, h) ==
    /\ IF ~HorarioDisponivel(horarios, s, h)
          THEN /\ resp' = Resposta("agendar_servico", 400, "SlotUnavailable")
               /\ UNCHANGED <<horarios, agendamentos>>
       ELSE IF MesmoDia(agendamentos, c, horarios[h].horario) # {}
          THEN /\ resp' = Resposta("agendar_servico", 400, "DoubleBookingSameDay")
               /\ UNCHANGED <<horarios, agendamentos>>
       ELSE /\ Len(agendamentos) < MaxAgendamentos
            /\ agendamentos' = Append(agendamentos,
                  NovoAgendamento(c, s, horarios[h].horario))
            /\ horarios' = [horarios EXCEPT ![h].is_disponivel = FALSE]
            /\ resp' = Resposta("agendar_servico", 200, "")
    /\ UNCHANGED <<relogio, fuso, agendando, loja>>

\* As JaAceita, but every appointment no longer PENDENTE is refused.
JaDecidida(reserva) == reserva.status # "PENDENTE"

\* The status test of aceitar_reserva.
JaAceita(reserva) == reserva.status = "ACEITO"

\* PUT /loja/reserva/<r>/aceitar
aceitar_reserva(r) ==
    /\ IF r \notin 1..Len(agendamentos)
          THEN /\ resp' = Resposta("aceitar_reserva", 404, "NotFound")
               /\ UNCHANGED agendamentos
       ELSE IF JaAceita(agendamentos[r])
          THEN /\ resp' = Resposta("aceitar_reserva", 400, "AlreadyAccepted")
               /\ UNCHANGED agendamentos
       ELSE /\ agendamentos' = [agendamentos EXCEPT ![r].status = "ACEITO"]
            /\ resp' = Resposta("aceitar_reserva", 200, "")
    /\ UNCHANGED <<horarios, relogio, fuso, agendando, loja>>

\* As JaRejeitada, but a canceled appointment is refused as well.
JaRejeitadaOuCancelada(reserva) == reserva.status \in {"REJEITADA", "CANCELADO"}

\* The status test of rejeitar_reserva.
JaRejeitada(reserva) == reserva.status = "REJEITADA"

\* PUT /loja/reserva/<r>/rejeitar
rejeitar_reserva(r) ==
    /\ IF r \notin 1..Len(agendamentos)
          THEN /\ resp' = Resposta("rejeitar_reserva", 404, "NotFound")
               /\ UNCHANGED agendamentos
       ELSE IF JaRejeitada(agendamentos[r])
          THEN /\ resp' = Resposta("rejeitar_reserva", 400, "AlreadyRejected")
               /\ UNCHANGED agendamentos
       ELSE /\ agendamentos' = [agendamentos EXCEPT ![r].status = "REJEITADA"]
            /\ resp' = Resposta("rejeitar_reserva", 200, "")
    /\ UNCHANGED <<horarios, relogio, fuso, agendando, loja>>

\* PUT /cliente/<c>/reserva/<r>/cancelar
cancelar_reserva(c, r) ==
    /\ IF r \notin 1..Len(agendamentos) \/ agendamentos[r].cliente_id # c
          THEN /\ resp' = Resposta("cancelar_reserva", 404, "NotFound")
               /\ UNCHANGED <<horarios, agendamentos>>
       ELSE IF agendamentos[r].status \in {"CANCELADO", "REJEITADA"}
          THEN /\ resp' = Resposta("cancelar_reserva", 400, "AlreadyTerminal")
               /\ UNCHANGED <<horarios, agendamentos>>
       ELSE IF MuitoTarde(agendamentos[r], AgoraLocal)
          THEN /\ resp' = Resposta("cancelar_reserva", 400, "TooLateToCancel")
               /\ UNCHANGED <<horarios, agendamentos>>
       ELSE IF agendamentos[r].status \notin {"PENDENTE", "ACEITO"}
          THEN /\ resp' = Resposta("cancelar_reserva", 400, "InvalidStatus")
               /\ UNCHANGED <<horarios, agendamentos>>
       ELSE LET k == HorarioDaReserva(horarios, agendamentos[r])
            IN /\ agendamentos' = [agendamentos EXCEPT ![r].status = "CANCELADO"]
               /\ horarios' = IF k = 0 THEN horarios
                               ELSE [horarios EXCEPT ![k].is_disponivel = TRUE]
               /\ resp' = Resposta("cancelar_reserva", 200, "")
    /\ UNCHANGED <<relogio, fuso, agendando, loja>>

\* Time passes between requests, from one of the instants to a later one.
Passar ==
    /\ \E t \in Instantes : t > relogio /\ relogio' = t
    /\ resp' = SemResposta
    /\ UNCHANGED <<horarios, agendamentos, fuso, agendando, loja>>

NextServicos ==
    \/ \E l \in Lojas, s \in Servicos, lista \in Listas :
          criar_horarios_servico(l, s, lista)
    \/ \E c \in Clientes, s \in Servicos, h \in 1..MaxHorarios :
          agendar_servico(c, s, h)
    \/ \E r \in 1..MaxAgendamentos : aceitar_reserva(r)
    \/ \E r \in 1..MaxAgendamentos : rejeitar_reserva(r)
    \/ \E c \in Clientes, r \in 1..MaxAgendamentos : cancelar_reserva(c, r)
    \/ Passar

\* The service requests handled one at a time, each handler run to completion.
SpecServicos == Init /\ [][NextServicos]_vars

\* The same requests on a server whose local time is any of the offsets.
SpecFusos == InitFusos /\ [][NextServicos]_vars

(* ---------------------- overlapping service requests ------------------ *)
\* agendar_servico up to the end of its two queries: the request is
\* refused, or is left with its INSERT and UPDATE to do on the slot it loaded.
agendar_ler(c, s, h) ==
    /\ IF ~HorarioDisponivel(horarios, s, h)
          THEN /\ resp' = Resposta("agendar_servico", 400, "SlotUnavailable")
               /\ UNCHANGED agendando
       ELSE IF MesmoDia(agendamentos, c, horarios[h].horario) # {}
          THEN /\ resp' = Resposta("agendar_servico", 400, "DoubleBookingSameDay")
               /\ UNCHANGED agendando
       ELSE /\ Cardinality(agendando) < MaxPedidos
            /\ agendando' = agendando \cup
                  {[cliente_id |-> c, servico_id |-> s, horario_id |-> h,
                    horario |-> horarios[h].horario]}
            /\ resp' = SemResposta
    /\ UNCHANGED <<horarios, agendamentos, relogio, fuso, loja>>

\* db.add(nova_reserva), the slot's flag and db.commit() of agendar_servico.
agendar_gravar(req) ==
    /\ req \in agendando
    /\ Len(agendamentos) < MaxAgendamentos
    /\ agendamentos' = Append(agendamentos,
          NovoAgendamento(req.cliente_id, req.servico_id, req.horario))
    /\ horarios' = [horarios EXCEPT ![req.horario_id].is_disponivel = FALSE]
    /\ agendando' = agendando \ {req}
    /\ resp' = Resposta("agendar_servico", 200, "")
    /\ UNCHANGED <<relogio, fuso, loja>>

NextAgendar ==
    \/ \E l \in Lojas, s \in Servicos, lista \in Listas :
          criar_horarios_servico(l, s, lista)
    \/ \E c \in Clientes, s \in Servicos, h \in 1..MaxHorarios :
          agendar_ler(c, s, h)
    \/ \E req \in agendando : agendar_gravar(req)

\* Bookings that overlap, each cut between its queries and its commit.
SpecAgendar == Init /\ [][NextAgendar]_vars

(* ------------------------------ properties ---------------------------- *)
FalhaFinalizar(erro) == Resposta("finalizar_carrinho", 400, erro)

\* Some line of the cart asks for more than its product has in stock.
FaltaEstoque(itens, est) ==
    \E k \in 1..Len(itens) : itens[k].quantidade > est[itens[k].produto_id]

\* The lines of the cart are of products of more than one store.
Misto(itens) ==
    \E j, k \in 1..Len(itens) :
        LojaDoProduto[itens[j].produto_id] # LojaDoProduto[itens[k].produto_id]

Terminal(reserva) == reserva.status \in {"RETIRADO", "CANCELADO"}

\* The reservations that hold stock: reserved or picked up.
Retidas(res) == {i \in 1..Len(res) : res[i].status \in {"RESERVADO", "RETIRADO"}}

\* C1, as stated: when some line of the cart asks for more than the stock of
\* its product, finalizar_carrinho answers InsufficientStock and the stock of
\* every product, the reservations and the carts are as before the call.
C1_SempreInsufficientStock ==
    [][\A c \in Clientes :
          (finalizar_carrinho(c) /\ FaltaEstoque(carrinho[c], quantidade_estoque))
          => /\ resp' = FalhaFinalizar("InsufficientStock")
             /\ quantidade_estoque' = quantidade_estoque
             /\ reservas' = reservas
             /\ carrinho' = carrinho]_vars

\* The first line of the cart that asks for more than the stock.
PrimeiraSemEstoque(itens, est) ==
    CHOOSE k \in 1..Len(itens) :
        /\ itens[k].quantidade > est[itens[k].produto_id]
        /\ \A j \in 1..(k - 1) : itens[j].quantidade <= est[itens[j].produto_id]

\* C1, amended: when some line of the cart asks for more than the stock of
\* its product, finalizar_carrinho fails and the stock of every product, the
\* reservations and the carts are as before the call; it answers
\* MixedStoreCart when the lines up to the first one short of stock are of
\* more than one store, and InsufficientStock otherwise.
C1_EstoqueInsuficiente ==
    [][\A c \in Clientes :
          (finalizar_carrinho(c) /\ FaltaEstoque(carrinho[c], quantidade_estoque))
          => /\ resp' = FalhaFinalizar(
                   IF Misto(SubSeq(carrinho[c], 1,
                                   PrimeiraSemEstoque(carrinho[c],
                                                      quantidade_estoque)))
                      THEN "MixedStoreCart" ELSE "InsufficientStock")
             /\ quantidade_estoque' = quantidade_estoque
             /\ reservas' = reservas
             /\ carrinho' = carrinho]_vars

\* A checkout has just failed with InsufficientStock on a cart of two lines,
\* one the stock covers and one it does not.
C1_Witness ==
    /\ resp = FalhaFinalizar("InsufficientStock")
    /\ \E c \in Clientes :
          /\ Len(carrinho[c]) = 2
          /\ \E k \in 1..2 : carrinho[c][k].quantidade
                                > quantidade_estoque[carrinho[c][k].produto_id]
          /\ \E k \in 1..2 : /\ carrinho[c][k].quantidade >= 1
                              /\ carrinho[c][k].quantidade
                                   <= quantidade_estoque[carrinho[c][k].produto_id]
          /\ \A d \in Clientes \ {c} : carrinho[d] = <<>>

\* C2, as stated: the checkout of a cart with lines of two stores answers
\* MixedStoreCart, whatever the stock and the order of the lines, and leaves
\* the stock of every product as it was.
C2_SempreMixedStoreCart ==
    [][\A c \in Clientes :
          (finalizar_carrinho(c) /\ Misto(carrinho[c]))
          => /\ resp' = FalhaFinalizar("MixedStoreCart")
             /\ quantidade_estoque' = quantidade_estoque]_vars

\* The first line of the cart whose store is not the store of line 1.
PrimeiraOutraLoja(itens) ==
    CHOOSE k \in 1..Len(itens) :
        /\ LojaDoProduto[itens[k].produto_id] # LojaDoProduto[itens[1].produto_id]
        /\ \A j \in 1..(k - 1) :
              LojaDoProduto[itens[j].produto_id] = LojaDoProduto[itens[1].produto_id]

\* C2, amended: the checkout of a cart with lines of two stores always
\* fails and leaves stock, reservations and carts as they were; it answers
\* InsufficientStock when a line before the first line of another store
\* asks for more than the stock, and MixedStoreCart otherwise.
C2_CarrinhoMistoFalha ==
    [][\A c \in Clientes :
          (finalizar_carrinho(c) /\ Misto(carrinho[c]))
          => /\ resp' = FalhaFinalizar(
                   IF FaltaEstoque(SubSeq(carrinho[c], 1,
                                          PrimeiraOutraLoja(carrinho[c]) - 1),
                                   quantidade_estoque)
                      THEN "InsufficientStock" ELSE "MixedStoreCart")
             /\ quantidade_estoque' = quantidade_estoque
             /\ reservas' = reservas
             /\ carrinho' = carrinho]_vars

\* A checkout has just failed with MixedStoreCart on a cart of two stores.
C2_Witness ==
    /\ resp = FalhaFinalizar("MixedStoreCart")
    /\ \E c \in Clientes :
          /\ Misto(carrinho[c])
          /\ \A d \in Clientes \ {c} : carrinho[d] = <<>>

\* C3: a successful checkout takes each line's quantity from the stock of
\* its product, adds one reservation RESERVADO of the client and of the
\* cart's store, expiring two days after its creation, with one item per
\* cart line that carries the line's quantity and the product's price, and
\* empties the client's cart.
C3_CheckoutComSucesso ==
    [][\A c \in Clientes :
          (finalizar_carrinho(c) /\ resp'.code = 200)
          => LET cart == carrinho[c]
                 r == reservas'[Len(reservas')]
             IN /\ Len(reservas') = Len(reservas) + 1
                /\ SubSeq(reservas', 1, Len(reservas)) = reservas
                /\ r.status = "RESERVADO"
                /\ r.cliente_id = c
                /\ \A k \in 1..Len(cart) :
                      LojaDoProduto[cart[k].produto_id] = r.loja_id
                /\ r.data_reserva = agora
                /\ r.data_limite = r.data_reserva + 2
                /\ Len(r.itens) = Len(cart)
                /\ \A k \in 1..Len(cart) :
                      r.itens[k] = [produto_id |-> cart[k].produto_id,
                                    quantidade |-> cart[k].quantidade,
                                    preco_unitario |->
                                        PrecoDoProduto[cart[k].produto_id]]
                /\ \A p \in Produtos :
                      quantidade_estoque'[p] =
                          quantidade_estoque[p] - QtdNosItens(cart, 1, p)
                /\ carrinho'[c] = <<>>
                /\ \A d \in Clientes \ {c} : carrinho'[d] = carrinho[d]]_vars

\* A checkout of a cart of two lines has just succeeded.
C3_Witness ==
    /\ resp = Resposta("finalizar_carrinho", 200, "")
    /\ reservas # <<>>
    /\ LET r == reservas[Len(reservas)]
       IN /\ r.status = "RESERVADO"
          /\ Len(r.itens) = 2
          /\ \A k \in 1..2 : r.itens[k].quantidade >= 1
          /\ carrinho[r.cliente_id] = <<>>

\* C4: the stock of every product is never negative.
C4_EstoqueNaoNegativo ==
    \A p \in Produtos : quantidade_estoque[p] >= 0

\* C5: the stock of a product plus the quantities of it in the items of
\* the reservations RESERVADO or RETIRADO is its initial stock: a canceled
\* reservation has given back what it took, one picked up has not.
C5_ConservacaoEstoque ==
    \A p \in Produtos :
        quantidade_estoque[p] + QtdNasReservas(reservas, Retidas(reservas), p)
            = EstoqueInicial[p]

\* One reservation has been canceled by a sweep and another picked up, both
\* with items.
C5_Witness ==
    \E i, j \in 1..Len(reservas) :
        /\ reservas[i].status = "CANCELADO"
        /\ reservas[j].status = "RETIRADO"
        /\ \E k \in 1..Len(reservas[i].itens) : reservas[i].itens[k].quantidade >= 1
        /\ \E k \in 1..Len(reservas[j].itens) : reservas[j].itens[k].quantidade >= 1

\* C6: in every committed state, what is missing from the stock of a
\* product is held by the items of reservations RESERVADO: no checkout has
\* part of its decrements applied, or decrements applied without its
\* reservation and the reservation's items.
C6_AjustesAtomicos ==
    \A p \in Produtos :
        EstoqueInicial[p] - quantidade_estoque[p] =
            QtdNasReservas(reservas,
                {i \in 1..Len(reservas) : reservas[i].status = "RESERVADO"}, p)

\* C7: a reservation RETIRADO or CANCELADO keeps its status in every step;
\* a pick-up of it, by the store or by the client, is refused and changes
\* nothing; and a sweep gives back the items of the reservations it takes
\* from RESERVADO to CANCELADO only.
C7_StatusTerminal ==
    [][/\ \A i \in 1..Len(reservas) :
             Terminal(reservas[i])
             => (i <= Len(reservas') /\ reservas'[i] = reservas[i])
       /\ \A l \in Lojas, r \in 1..Len(reservas) :
             (marcar_retirada(l, r) /\ reservas[r].loja_id = l
                                   /\ Terminal(reservas[r]))
             => /\ resp' = Resposta("marcar_retirada", 400, "InvalidStatus")
                /\ UNCHANGED <<reservas, quantidade_estoque, carrinho>>
       /\ \A c \in Clientes, r \in 1..Len(reservas) :
             (cliente_marcar_retirada(c, r) /\ reservas[r].cliente_id = c
                                           /\ Terminal(reservas[r]))
             => /\ resp' = Resposta("cliente_marcar_retirada", 400, "InvalidStatus")
                /\ UNCHANGED <<reservas, quantidade_estoque, carrinho>>
       /\ \A l \in Lojas :
             cancelar_expiradas(l)
             => \A p \in Produtos :
                  quantidade_estoque'[p] - quantidade_estoque[p] =
                      QtdNasReservas(reservas,
                          {i \in 1..Len(reservas) :
                              /\ reservas[i].status = "RESERVADO"
                              /\ reservas'[i].status = "CANCELADO"}, p)
      ]_vars

\* A pick-up has just been refused for its status, with a canceled
\* reservation and a picked-up one in the table.
C7_Witness ==
    /\ resp.erro = "InvalidStatus"
    /\ \E i, j \in 1..Len(reservas) :
          reservas[i].status = "CANCELADO" /\ reservas[j].status = "RETIRADO"

\* C8: on a reservation RESERVADO, the pick-up by its client is refused
\* with WindowExpired, the status staying RESERVADO, exactly when the clock
\* is past data_reserva + 4 days, and sets RETIRADO otherwise; the pick-up
\* by its store sets RETIRADO whatever the clock.
C8_JanelaDeRetirada ==
    [][/\ \A c \in Clientes, r \in 1..Len(reservas) :
             (cliente_marcar_retirada(c, r) /\ reservas[r].cliente_id = c
                                           /\ reservas[r].status = "RESERVADO")
             => IF agora > reservas[r].data_reserva + 4
                   THEN /\ resp' = Resposta("cliente_marcar_retirada", 400,
                                            "WindowExpired")
                        /\ reservas' = reservas
                   ELSE /\ resp' = Resposta("cliente_marcar_retirada", 200, "")
                        /\ reservas' = [reservas EXCEPT ![r].status = "RETIRADO"]
       /\ \A l \in Lojas, r \in 1..Len(reservas) :
             (marcar_retirada(l, r) /\ reservas[r].loja_id = l
                                   /\ reservas[r].status = "RESERVADO")
             => /\ resp' = Resposta("marcar_retirada", 200, "")
                /\ reservas' = [reservas EXCEPT ![r].status = "RETIRADO"]
      ]_vars

\* The client's pick-up has just been refused with WindowExpired, and the
\* reservation, more than 4 days old, is still RESERVADO.
C8_Witness ==
    /\ resp = Resposta("cliente_marcar_retirada", 400, "WindowExpired")
    /\ \E r \in 1..Len(reservas) :
          /\ reservas[r].status = "RESERVADO"
          /\ agora > reservas[r].data_reserva + 4

\* The reservations cancelar_expiradas(l) is to cancel at time t.
Vencidas(res, l, t) ==
    {i \in 1..Len(res) :
        /\ res[i].loja_id = l
        /\ res[i].status = "RESERVADO"
        /\ (t > res[i].data_limite \/ t > res[i].data_reserva + 4)}

\* C9: cancelar_expiradas(l) sets CANCELADO exactly the reservations of
\* store l that are RESERVADO and past data_limite or past data_reserva +
\* 4 days, gives the quantity of each of their items back to its product
\* once, and leaves every other reservation as it was.
C9_SweepExato ==
    [][\A l \in Lojas :
          cancelar_expiradas(l)
          => /\ Len(reservas') = Len(reservas)
             /\ \A i \in 1..Len(reservas) :
                   reservas'[i] =
                      IF i \in Vencidas(reservas, l, agora)
                         THEN [reservas[i] EXCEPT !.status = "CANCELADO"]
                         ELSE reservas[i]
             /\ \A p \in Produtos :
                   quantidade_estoque'[p] =
                      quantidade_estoque[p]
                      + QtdNasReservas(reservas, Vencidas(reservas, l, agora), p)
             /\ resp'.code = 200]_vars

\* A sweep has just run that canceled a reservation past both limits and
\* left another one RESERVADO.
C9_Witness ==
    /\ resp.op = "cancelar_expiradas"
    /\ \E i, j \in 1..Len(reservas) :
          /\ reservas[i].status = "CANCELADO"
          /\ agora > reservas[i].data_reserva + 4
          /\ reservas[j].status = "RESERVADO"

\* C10: with the clock fixed, cancelar_expiradas(l) run on the result of
\* cancelar_expiradas(l) changes neither a reservation nor a stock.
C10_SweepIdempotente ==
    \A l \in Lojas :
        LET r1 == SweepReservas(reservas, l, agora)
            e1 == SweepEstoque(quantidade_estoque, reservas, l, agora)
        IN /\ SweepReservas(r1, l, agora) = r1
           /\ SweepEstoque(e1, r1, l, agora) = e1

\* A sweep has something to cancel and to give back.
C10_Witness ==
    \E l \in Lojas :
        /\ Vencidas(reservas, l, agora) # {}
        /\ SweepEstoque(quantidade_estoque, reservas, l, agora) # quantidade_estoque

FalhaAgendar(erro) == Resposta("agendar_servico", 400, erro)

\* C11: two bookings of one slot by different clients, however their steps
\* interleave, never both create an appointment: no two appointments of
\* different clients are for the same service and timestamp.
C11_UmAgendamentoPorHorario ==
    \A i, j \in 1..Len(agendamentos) :
        (i # j /\ agendamentos[i].cliente_id # agendamentos[j].cliente_id)
        => ~(/\ agendamentos[i].servico_id = agendamentos[j].servico_id
             /\ agendamentos[i].data_horario = agendamentos[j].data_horario)

\* C12: agendar_servico answers SlotUnavailable when the slot does not
\* exist, is of another service or has its flag false, and then creates no
\* appointment and changes no slot.
C12_HorarioIndisponivel ==
    [][\A c \in Clientes, s \in Servicos, h \in 1..MaxHorarios :
          (/\ agendar_servico(c, s, h)
           /\ (\/ h > Len(horarios)
               \/ horarios[h].servico_id # s
               \/ ~horarios[h].is_disponivel))
          => /\ resp' = FalhaAgendar("SlotUnavailable")
             /\ agendamentos' = agendamentos
             /\ horarios' = horarios]_vars

\* A booking has just been refused with SlotUnavailable, with a locked slot
\* and an available slot of each service in the table.
C12_Witness ==
    /\ resp = FalhaAgendar("SlotUnavailable")
    /\ Len(horarios) = 2
    /\ horarios[1].servico_id # horarios[2].servico_id
    /\ \E h \in 1..2 : ~horarios[h].is_disponivel

\* The client has an appointment, of any status, on the calendar date of h.
TemNoDia(ag, c, h) ==
    \E i \in 1..Len(ag) : /\ ag[i].cliente_id = c
                           /\ Data(ag[i].data_horario) = Data(h)

\* C13: agendar_servico on an available slot answers DoubleBookingSameDay,
\* creating nothing and leaving the slot available, whenever the client has
\* an appointment of any status on the slot's calendar date; so a client
\* never has two appointments on one calendar date.
C13_UmPorDia ==
    /\ [](\A i, j \in 1..Len(agendamentos) :
            (i # j /\ agendamentos[i].cliente_id = agendamentos[j].cliente_id)
            => Data(agendamentos[i].data_horario) # Data(agendamentos[j].data_horario))
    /\ [][\A c \in Clientes, s \in Servicos, h \in 1..MaxHorarios :
             (/\ agendar_servico(c, s, h)
              /\ HorarioDisponivel(horarios, s, h)
              /\ TemNoDia(agendamentos, c, horarios[h].horario))
             => /\ resp' = FalhaAgendar("DoubleBookingSameDay")
                /\ agendamentos' = agendamentos
                /\ horarios' = horarios]_vars

\* C14: a successful agendar_servico adds one appointment PENDENTE of the
\* client, the service and the service's store, with the slot's timestamp,
\* sets the slot's flag to false, and changes no other slot or appointment.
C14_AgendamentoComSucesso ==
    [][\A c \in Clientes, s \in Servicos, h \in 1..MaxHorarios :
          (agendar_servico(c, s, h) /\ resp'.code = 200)
          => /\ horarios[h].is_disponivel
             /\ agendamentos' = Append(agendamentos,
                   [cliente_id |-> c, loja_id |-> LojaDoServico[s],
                    servico_id |-> s, data_horario |-> horarios[h].horario,
                    status |-> "PENDENTE"])
             /\ horarios' = [horarios EXCEPT ![h].is_disponivel = FALSE]]_vars

\* A booking has just succeeded: the last appointment is PENDENTE and its
\* slot is locked, next to a slot still available.
C14_Witness ==
    /\ resp = Resposta("agendar_servico", 200, "")
    /\ agendamentos # <<>>
    /\ agendamentos[Len(agendamentos)].status = "PENDENTE"
    /\ \E h, k \in 1..Len(horarios) :
          /\ horarios[h].servico_id = agendamentos[Len(agendamentos)].servico_id
          /\ horarios[h].horario = agendamentos[Len(agendamentos)].data_horario
          /\ ~horarios[h].is_disponivel
          /\ horarios[k].is_disponivel

\* C15: aceitar_reserva is refused with AlreadyAccepted, changing nothing,
\* exactly when the appointment is ACEITO; from PENDENTE, REJEITADA and
\* CANCELADO it sets ACEITO; it never changes a slot.
C15_Aceitar ==
    [][\A r \in 1..Len(agendamentos) :
          aceitar_reserva(r)
          => /\ IF agendamentos[r].status = "ACEITO"
                   THEN /\ resp' = Resposta("aceitar_reserva", 400, "AlreadyAccepted")
                        /\ agendamentos' = agendamentos
                   ELSE /\ resp' = Resposta("aceitar_reserva", 200, "")
                        /\ agendamentos' =
                              [agendamentos EXCEPT ![r].status = "ACEITO"]
             /\ horarios' = horarios]_vars

\* An accept has just succeeded and an appointment ACEITO has its slot
\* available again, which only a cancellation does: it was accepted after
\* it was canceled.
C15_Witness ==
    /\ resp = Resposta("aceitar_reserva", 200, "")
    /\ \E r \in 1..Len(agendamentos) :
          /\ agendamentos[r].status = "ACEITO"
          /\ HorarioDaReserva(horarios, agendamentos[r]) # 0
          /\ horarios[HorarioDaReserva(horarios, agendamentos[r])].is_disponivel

\* C16: rejeitar_reserva is refused with AlreadyRejected, changing nothing,
\* exactly when the appointment is REJEITADA; from PENDENTE, ACEITO and
\* CANCELADO it sets REJEITADA.
C16_Rejeitar ==
    [][\A r \in 1..Len(agendamentos) :
          rejeitar_reserva(r)
          => IF agendamentos[r].status = "REJEITADA"
                THEN /\ resp' = Resposta("rejeitar_reserva", 400, "AlreadyRejected")
                     /\ agendamentos' = agendamentos
                     /\ horarios' = horarios
                ELSE /\ resp' = Resposta("rejeitar_reserva", 200, "")
                     /\ agendamentos' =
                           [agendamentos EXCEPT ![r].status = "REJEITADA"]]_vars

\* A reject has just succeeded and an appointment REJEITADA has its slot
\* available again, which only a cancellation does: it was rejected after
\* it was canceled.
C16_Witness ==
    /\ resp = Resposta("rejeitar_reserva", 200, "")
    /\ \E r \in 1..Len(agendamentos) :
          /\ agendamentos[r].status = "REJEITADA"
          /\ HorarioDaReserva(horarios, agendamentos[r]) # 0
          /\ horarios[HorarioDaReserva(horarios, agendamentos[r])].is_disponivel

\* C17: cancelar_reserva by the appointment's client succeeds exactly when
\* the appointment is PENDENTE or ACEITO and its timestamp is an hour or
\* more after now.  It is refused with AlreadyTerminal when CANCELADO or
\* REJEITADA, and otherwise with TooLateToCancel when less than an hour is
\* left, both leaving appointments and slots as they were.  On success the
\* status is CANCELADO and the slots of the same service and timestamp are
\* available, every other slot and appointment as before.
C17_Cancelar ==
    [][\A c \in Clientes, r \in 1..Len(agendamentos) :
          (cancelar_reserva(c, r) /\ agendamentos[r].cliente_id = c)
          => LET a == agendamentos[r]
             IN IF /\ a.status \in {"PENDENTE", "ACEITO"}
                   /\ a.data_horario - AgoraLocal >= UMA_HORA
                   THEN /\ resp' = Resposta("cancelar_reserva", 200, "")
                        /\ agendamentos' =
                              [agendamentos EXCEPT ![r].status = "CANCELADO"]
                        /\ Len(horarios') = Len(horarios)
                        /\ \A h \in 1..Len(horarios) :
                              horarios'[h] =
                                 IF /\ horarios[h].servico_id = a.servico_id
                                    /\ horarios[h].horario = a.data_horario
                                    THEN [horarios[h] EXCEPT !.is_disponivel = TRUE]
                                    ELSE horarios[h]
                   ELSE /\ resp' = Resposta("cancelar_reserva", 400,
                               IF a.status \in {"CANCELADO", "REJEITADA"}
                                  THEN "AlreadyTerminal" ELSE "TooLateToCancel")
                        /\ agendamentos' = agendamentos
                        /\ horarios' = horarios]_vars

\* A cancellation has just been refused with TooLateToCancel: an
\* appointment PENDENTE or ACEITO is less than an hour ahead and its slot
\* is still locked.
C17_Witness ==
    /\ resp = Resposta("cancelar_reserva", 400, "TooLateToCancel")
    /\ \E r \in 1..Len(agendamentos) :
          /\ agendamentos[r].status \in {"PENDENTE", "ACEITO"}
          /\ agendamentos[r].data_horario - AgoraLocal < UMA_HORA
          /\ HorarioDaReserva(horarios, agendamentos[r]) # 0
          /\ ~horarios[HorarioDaReserva(horarios, agendamentos[r])].is_disponivel

\* C18: criar_horarios_servico adds an available slot of the service for
\* each timestamp of the list the service has no slot at, once, and leaves
\* the slots there were as they were, locked ones locked; the same call
\* again adds nothing; so a service never has two slots at one timestamp.
C18_CriarHorarios ==
    /\ [](\A h, k \in 1..Len(horarios) :
            (/\ horarios[h].servico_id = horarios[k].servico_id
             /\ horarios[h].horario = horarios[k].horario) => h = k)
    /\ [][\A l \in Lojas, s \in Servicos, lista \in Listas :
             (/\ resp' = Resposta("criar_horarios_servico", 200, "")
              /\ LojaDoServico[s] = l
              /\ criar_horarios_servico(l, s, lista))
             => /\ SubSeq(horarios', 1, Len(horarios)) = horarios
                /\ \A k \in (Len(horarios) + 1)..Len(horarios') :
                      /\ horarios'[k].servico_id = s
                      /\ horarios'[k].is_disponivel
                      /\ \E n \in 1..Len(lista) : horarios'[k].horario = lista[n]
                      /\ ~ExisteHorario(horarios, s, horarios'[k].horario)
                /\ \A n \in 1..Len(lista) : ExisteHorario(horarios', s, lista[n])
                /\ InserirHorarios(horarios', <<>>, s, lista, 1) = horarios'
                /\ agendamentos' = agendamentos]_vars

\* A call has just added a slot next to a locked one.
C18_Witness ==
    /\ resp = Resposta("criar_horarios_servico", 200, "")
    /\ Len(horarios) = 2
    /\ ~horarios[1].is_disponivel
    /\ horarios[2].is_disponivel
    /\ horarios[1].servico_id = horarios[2].servico_id

\* C19: an appointment REJEITADA or CANCELADO keeps its status in every step.
C19_Terminais ==
    [][\A r \in 1..Len(agendamentos) :
          agendamentos[r].status \in {"REJEITADA", "CANCELADO"}
          => agendamentos'[r].status = agendamentos[r].status]_vars

\* The appointments that hold a slot.
Ativas(ag) == {i \in 1..Len(ag) : ag[i].status \in {"PENDENTE", "ACEITO"}}

\* C20: no two appointments PENDENTE or ACEITO are for the same service
\* and timestamp, and the slot of every such appointment has its flag false.
C20_HorarioExclusivo ==
    /\ \A i, j \in Ativas(agendamentos) :
          (/\ agendamentos[i].servico_id = agendamentos[j].servico_id
           /\ agendamentos[i].data_horario = agendamentos[j].data_horario)
          => i = j
    /\ \A i \in Ativas(agendamentos), h \in 1..Len(horarios) :
          (/\ horarios[h].servico_id = agendamentos[i].servico_id
           /\ horarios[h].horario = agendamentos[i].data_horario)
          => ~horarios[h].is_disponivel

\* C21: the 1-hour test of cancelar_reserva reads the UTC clock, as the
\* tests of cliente_marcar_retirada and cancelar_expiradas do: whatever the
\* offset of the server's local time, the cancellation of an appointment
\* PENDENTE or ACEITO by its client succeeds exactly when the appointment's
\* timestamp is an hour or more after the UTC now.
C21_RelogioUnico ==
    [][\A c \in Clientes, r \in 1..Len(agendamentos) :
          (/\ cancelar_reserva(c, r)
           /\ agendamentos[r].cliente_id = c
           /\ agendamentos[r].status \in {"PENDENTE", "ACEITO"})
          => (resp'.code = 200
                <=> agendamentos[r].data_horario - relogio >= UMA_HORA)]_vars

\* C22: however the steps of a sweep and of a pick-up interleave, what the
\* items of the reservations RESERVADO or RETIRADO hold is missing from the
\* stock: no reservation is RETIRADO with its quantities given back, and
\* none is given back more than once.
C22_RetiradaOuDevolucao ==
    \A p \in Produtos :
        quantidade_estoque[p] <=
            EstoqueInicial[p] - QtdNasReservas(reservas, Retidas(reservas), p)

\* C23: however the steps of two checkouts interleave, the stock of a
\* product is never negative, and once no checkout is in progress it is the
\* initial stock minus the quantities of the product in the reservations
\* the checkouts created.
C23_SemVendaExcedente ==
    /\ \A p \in Produtos : quantidade_estoque[p] >= 0
    /\ (\A c \in Clientes : finalizando[c] = Ocioso)
       => \A p \in Produtos :
             quantidade_estoque[p] =
                EstoqueInicial[p]
                - QtdNasReservas(reservas, 1..Len(reservas), p)

\* C24: every slot whose flag is false has an appointment PENDENTE or
\* ACEITO of its service at its timestamp: a slot does not stay locked
\* after its only appointment is rejected or canceled.
C24_SemBloqueioPerdido ==
    \A h \in 1..Len(horarios) :
        ~horarios[h].is_disponivel
        => \E i \in Ativas(agendamentos) :
              /\ agendamentos[i].servico_id = horarios[h].servico_id
              /\ agendamentos[i].data_horario = horarios[h].horario

\* C25: adicionar_item_carrinho of a product of another store than the
\* store of the cart's first row is refused and leaves the carts as they
\* were; so, with additions, removals and checkouts handled one at a time,
\* the rows of a client's cart are of products of one store and
\* finalizar_carrinho never answers MixedStoreCart.
C25_CarrinhoDeUmaLoja ==
    /\ [](/\ \A c \in Clientes : ~Misto(carrinho[c])
          /\ resp # FalhaFinalizar("MixedStoreCart"))
    /\ [][\A c \in Clientes, p \in Produtos, q \in Quantidades :
             (/\ adicionar_item_carrinho(c, p, q)
              /\ carrinho[c] # <<>>
              /\ LojaDoProduto[carrinho[c][1].produto_id] # LojaDoProduto[p])
             => /\ resp' = Resposta("adicionar_item_carrinho", 400, "OutraLoja")
                /\ carrinho' = carrinho]_vars

\* An addition has just been refused for its store, on a cart whose first
\* row was removed and whose rows are of one store.
C25_Witness ==
    /\ resp = Resposta("adicionar_item_carrinho", 400, "OutraLoja")
    /\ carrinho_seq = 2
    /\ \E c \in Clientes :
          /\ Len(carrinho[c]) = 1
          /\ \A d \in Clientes \ {c} : carrinho[d] = <<>>
          /\ reservas = <<>>

\* C26: whatever the quantities of the cart requests, every cart row and
\* every item of a reservation has a quantity of 1 or more, and
\* finalizar_carrinho never increases the stock of a product.
C26_QuantidadesPositivas ==
    /\ [](/\ \A c \in Clientes : \A k \in 1..Len(carrinho[c]) :
                carrinho[c][k].quantidade >= 1
          /\ \A r \in 1..Len(reservas) : \A k \in 1..Len(reservas[r].itens) :
                reservas[r].itens[k].quantidade >= 1)
    /\ [][\A c \in Clientes :
             finalizar_carrinho(c)
             => \A p \in Produtos :
                   quantidade_estoque'[p] <= quantidade_estoque[p]]_vars

\* C27: every reservation has data_limite = data_reserva + 2 days and no
\* step changes either date; so the reservations the 4-day query of
\* cancelar_expiradas selects are among those its 2-day query selects, and
\* after the first loop the second query selects none.
C27_PrazoDeDoisDias ==
    /\ [](/\ \A r \in 1..Len(reservas) :
                reservas[r].data_limite = reservas[r].data_reserva + 2
          /\ \A l \in Lojas :
                /\ Expiradas4Dias(reservas, l, agora)
                      \subseteq Expiradas2Dias(reservas, l, agora)
                /\ Expiradas4Dias(
                      Cancelar(reservas, Expiradas2Dias(reservas, l, agora)),
                      l, agora) = {})
    /\ [][\A r \in 1..Len(reservas) :
             /\ r <= Len(reservas')
             /\ reservas'[r].data_reserva = reservas[r].data_reserva
             /\ reservas'[r].data_limite = reservas[r].data_limite]_vars

\* A reservation RESERVADO is past its 4-day cutoff, after a sweep that
\* canceled another one.
C27_Witness ==
    /\ \E l \in Lojas : Expiradas4Dias(reservas, l, agora) # {}
    /\ \E i \in 1..Len(reservas) : reservas[i].status = "CANCELADO"

\* C28: in every reachable state, also after remover_produto has removed a
\* product that an item of a reservation RESERVADO references,
\* cancelar_expiradas(l) answers 200 and leaves CANCELADO every reservation
\* of store l that was RESERVADO and past its limit; and, the stores
\* repeating their sweeps, a reservation RESERVADO past its data_limite
\* eventually is RETIRADO or CANCELADO.
C28_VarreduraSemFalha ==
    /\ [][\A l \in Lojas :
             cancelar_expiradas(l)
             => /\ resp' = Resposta("cancelar_expiradas", 200, "")
                /\ \A i \in Vencidas(reservas, l, agora) :
                      reservas'[i].status = "CANCELADO"]_vars
    /\ \A r \in 1..MaxReservas :
          (/\ r <= Len(reservas)
           /\ reservas[r].status = "RESERVADO"
           /\ agora > reservas[r].data_limite)
          ~> (r <= Len(reservas) /\ Terminal(reservas[r]))

====
